---------------------------- MODULE Spec2Model ----------------------------
(***************************************************************************)
(* Model of the LibraDB BackupHandler                                      *)
(* (storage/libradb/src/backup/backup_handler.rs).                         *)
(*                                                                         *)
(* The handler is a read-only facade over three stores.  Its code issues   *)
(* every store read as a separate call, so the model gives the handler a   *)
(* program counter and lets the external writer commit new versions        *)
(* between any two reads.  The three stores themselves are not part of     *)
(* backup_handler.rs; they are modelled from their interface description.  *)
(***************************************************************************)
EXTENDS Integers, Sequences, FiniteSets

(***************************************************************************)
(* Bounds of the model.                                                    *)
(***************************************************************************)
\* Width of the Version type (u64 in the code), scaled down.
VersionBits == 3
\* The writer stops after this many committed versions.
MaxVersions == 3
\* Largest `num_transactions` a caller asks get_transaction_iter for.
MaxCount == 3
\* Account keys are 0 .. MaxKey (0 is HashValue::zero()).
MaxKey == 1

Pow2(n) == IF n = 0 THEN 1 ELSE 2 ^ n
VersionModulus == Pow2(VersionBits)
MaxU == VersionModulus - 1

\* The versions a caller passes: the committed ones, the first uncommitted
\* ones, and the largest value of the type.
VersionArgs == (0 .. MaxVersions) \cup {MaxU}
AccountKeys == 0 .. MaxKey

(***************************************************************************)
(* Values.                                                                 *)
(***************************************************************************)
Ok(x) == [tag |-> "ok", val |-> x]
Err(k) == [tag |-> "err", kind |-> k]
Pending == [tag |-> "pending"]
IsOk(r) == r.tag = "ok"
IsErr(r) == r.tag = "err"

None == [some |-> FALSE]
Some(x) == [some |-> TRUE, val |-> x]

\* A transaction and its TransactionInfo are identified by their version.
Transaction(v) == [txn |-> v]
TransactionInfo(v) == [info |-> v]
LedgerInfo(e, v) == [epoch |-> e, version |-> v]

NoIter == [start |-> 0, next |-> 0, end |-> 0, snap |-> 0]
NoCall == [op |-> "none", a |-> 0, b |-> 0, snap |-> 0, epochs |-> 0]

VARIABLES
    \* the three stores (BackupHandler's fields)
    transaction_store,   \* Seq: transaction_store[v+1] is the transaction at v
    ledger_store,        \* [infos, epoch_ends, ledger_infos]
    state_store,         \* Seq: state_store[v+1] is the key set of the tree at v
    \* the build: whether integer overflow checks are compiled in
    overflow_checks,
    \* one handler call in progress
    pc, call, epoch, ledger_info, num_transactions,
    txn_iter, txn_info_iter, iter,
    items, result,
    reads                \* the stores the call in progress has read

stores == <<transaction_store, ledger_store, state_store>>
locals == <<epoch, ledger_info, num_transactions, txn_iter, txn_info_iter, iter>>
vars == <<transaction_store, ledger_store, state_store, overflow_checks,
          pc, call, epoch, ledger_info, num_transactions,
          txn_iter, txn_info_iter, iter, items, result, reads>>

\* Number of committed versions; they are 0 .. NumVersions - 1.
NumVersions == Len(transaction_store)
CurrentEpoch == Len(ledger_store.epoch_ends)

(***************************************************************************)
(* The external write path: commits version NumVersions to the three       *)
(* stores in one atomic step.  The commit may end the current epoch, and   *)
(* may add one account key to the state tree.                              *)
(***************************************************************************)
LastTree == state_store[Len(state_store)]

Commit(ends_epoch, new_keys) ==
    /\ NumVersions < MaxVersions
    /\ LET v == NumVersions
           e == Len(ledger_store.epoch_ends)
           li == LedgerInfo(e, v)
       IN  /\ transaction_store' = Append(transaction_store, Transaction(v))
           /\ ledger_store' =
                [infos |-> Append(ledger_store.infos, TransactionInfo(v)),
                 epoch_ends |-> IF ends_epoch
                                THEN Append(ledger_store.epoch_ends, v)
                                ELSE ledger_store.epoch_ends,
                 ledger_infos |->
                    IF e + 1 <= Len(ledger_store.ledger_infos)
                    THEN [ledger_store.ledger_infos EXCEPT ![e + 1] = li]
                    ELSE Append(ledger_store.ledger_infos, li)]
           /\ state_store' = Append(state_store, LastTree \cup new_keys)
    /\ UNCHANGED <<overflow_checks, pc, call, locals, items, result, reads>>

(***************************************************************************)
(* The stores' read interface, as the handler consumes it.                 *)
(***************************************************************************)
\* The epoch that owns `version`: the number of epoch boundaries before it
\* (a boundary version is the last version of its epoch).
LedgerStore_get_epoch(version) ==
    Cardinality({i \in 1 .. Len(ledger_store.epoch_ends) :
                    ledger_store.epoch_ends[i] < version})

\* The canonical latest checkpoint of `e`, or a missing-checkpoint error.
LedgerStore_get_latest_ledger_info_in_epoch(e) ==
    IF e + 1 <= Len(ledger_store.ledger_infos)
    THEN Ok(ledger_store.ledger_infos[e + 1])
    ELSE Err("missing checkpoint")

\* A range proof of `num` leaves from `first` against the accumulator root at
\* `ledger_version`, which must be committed and not before the last leaf.
LedgerStore_get_transaction_range_proof(first, num, ledger_version) ==
    IF /\ num >= 1
       /\ ledger_version < NumVersions
       /\ first + num - 1 <= ledger_version
    THEN Ok([first_version |-> first, num_leaves |-> num,
             ledger_version |-> ledger_version])
    ELSE Err("invalid range")

\* The TransactionInfo at `version` with its proof against `ledger_version`.
LedgerStore_get_transaction_info_with_proof(version, ledger_version) ==
    IF ledger_version < NumVersions /\ version <= ledger_version
    THEN Ok([transaction_info |-> ledger_store.infos[version + 1],
             ledger_version |-> ledger_version])
    ELSE Err("invalid range")

\* Both per-version iterators are lazy sequences over the snapshot of their
\* store taken when they are created.  The transaction iterator fails where
\* fewer than the requested transactions exist; the outcome iterator has no
\* such failure and ends where its store does, which is how the two come to
\* disagree in length.  The end of the range must be a Version.
NewVersionIter(start, n) ==
    IF start + n > MaxU
    THEN Err("invalid range")
    ELSE Ok([start |-> start, next |-> start, end |-> start + n,
             snap |-> NumVersions])

TransactionStore_get_transaction_iter(start, n) == NewVersionIter(start, n)

LedgerStore_get_transaction_info_iter(start, n) == NewVersionIter(start, n)

\* The transaction iterator yields one item per requested position; the item
\* fails when the read fails or when the store holds no transaction there.
TransactionIter_next(it, io) ==
    IF it.next >= it.end
    THEN [item |-> None, it |-> it]
    ELSE [item |-> Some(IF io THEN Err("io")
                        ELSE IF it.next < it.snap
                             THEN Ok(transaction_store[it.next + 1])
                             ELSE Err("invalid range")),
          it |-> [it EXCEPT !.next = @ + 1]]

\* The outcome iterator yields the outcomes the store holds in the range.
TransactionInfoIter_next(it, io) ==
    IF it.next >= it.end \/ it.next >= it.snap
    THEN [item |-> None, it |-> it]
    ELSE [item |-> Some(IF io THEN Err("io")
                        ELSE Ok(ledger_store.infos[it.next + 1])),
          it |-> [it EXCEPT !.next = @ + 1]]

\* Number of items each iterator yields when driven to its end.
TransactionIterLen(it) == it.end - it.start
TransactionInfoIterLen(it) ==
    IF it.snap <= it.start THEN 0
    ELSE (IF it.end < it.snap THEN it.end ELSE it.snap) - it.start

\* The ordered leaf iterator of the sparse tree at `version`, from `key` on.
JellyfishMerkleIterator_new(version, key) ==
    IF version < NumVersions
    THEN Ok([version |-> version, next_key |-> key])
    ELSE Err("missing version")

KeysFrom(it) == {k \in state_store[it.version + 1] : k >= it.next_key}
MinKey(S) == CHOOSE k \in S : \A j \in S : k <= j

JellyfishMerkleIterator_next(it) ==
    IF KeysFrom(it) = {}
    THEN [item |-> None, it |-> it]
    ELSE [item |-> Some(Ok([key |-> MinKey(KeysFrom(it))])),
          it |-> [it EXCEPT !.next_key = MinKey(KeysFrom(it)) + 1]]

\* The checkpoint iterator over the epochs [start_epoch, end_epoch).
LedgerStore_get_epoch_ending_ledger_info_iter(start_epoch, end_epoch) ==
    Ok([next |-> start_epoch, end |-> end_epoch])

EpochEndingLedgerInfoIter_next(it, io) ==
    IF it.next >= it.end
    THEN [item |-> None, it |-> it]
    ELSE [item |-> Some(IF io THEN Err("io")
                        ELSE LedgerStore_get_latest_ledger_info_in_epoch(it.next)),
          it |-> [it EXCEPT !.next = @ + 1]]

(***************************************************************************)
(* BackupHandler: the pure pieces of its code.                             *)
(***************************************************************************)
\* Unsigned arithmetic of the Version type: the wrapped value and whether
\* the mathematical value left the type.
WrapU(x) == x % VersionModulus
Overflows(x) == x < 0 \/ x > MaxU

\* Mutant: the range check with its operands exchanged.
range_ok_reversed(first_version, last_version) == first_version >= last_version

\* ensure!(last_version >= first_version, ...)
range_ok(first_version, last_version) == last_version >= first_version

\* Mutant: the leaf count without the + 1.
num_transactions_off_by_one(first_version, last_version) ==
    LET d == last_version - first_version
    IN  [overflow |-> Overflows(d), value |-> WrapU(d)]

\* let num_transactions = last_version - first_version + 1;
num_transactions_of(first_version, last_version) ==
    LET d == last_version - first_version
    IN  [overflow |-> Overflows(d) \/ Overflows(WrapU(d) + 1),
         value |-> WrapU(WrapU(d) + 1)]

\* Mutant: the proof is built against the checkpoint the store holds for the
\* epoch now, not against the one read before.
range_proof_request_reread(first_version, num, li) ==
    [first |-> first_version, num |-> num,
     ledger_version |-> ledger_store.ledger_infos[li.epoch + 1].version]

\* get_transaction_range_proof(Some(first_version), num_transactions,
\*                             ledger_info.ledger_info().version())
range_proof_request(first_version, num, li) ==
    [first |-> first_version, num |-> num, ledger_version |-> li.version]

\* Mutant: the outcome is authenticated against its own version.
state_root_proof_request_self(version, li) ==
    [version |-> version, ledger_version |-> version]

\* get_transaction_info_with_proof(version, ledger_info.ledger_info().version())
state_root_proof_request(version, li) ==
    [version |-> version, ledger_version |-> li.version]

\* Mutant: the outcome iterator starts one version late.
txn_info_iter_request_shifted(start_version, num) ==
    [start |-> start_version + 1, num |-> num]

\* get_transaction_info_iter(start_version, num_transactions)
txn_info_iter_request(start_version, num) ==
    [start |-> start_version, num |-> num]

\* Mutant: the iteration starts after the minimal key.
HashValue_one == 0 + 1

\* HashValue::zero(), the key get_account_iter starts from
HashValue_zero == 0

\* Mutant: the end epoch taken as inclusive.
epoch_iter_request_inclusive(start_epoch, end_epoch) ==
    [start |-> start_epoch, end |-> end_epoch + 1]

\* get_epoch_ending_ledger_info_iter(start_epoch, end_epoch)
epoch_iter_request(start_epoch, end_epoch) ==
    [start |-> start_epoch, end |-> end_epoch]

\* .map(|(txn_res, txn_info_res)| Ok((txn_res?, txn_info_res?)))
map_closure(txn_res, txn_info_res) ==
    IF IsErr(txn_res) THEN txn_res
    ELSE IF IsErr(txn_info_res) THEN txn_info_res
    ELSE Ok(<<txn_res.val, txn_info_res.val>>)

\* Mutant: a failed transaction read returns before the outcome iterator is
\* advanced.
zipped_next_short_circuit(a, b, io_a, io_b) ==
    LET ra == TransactionIter_next(a, io_a)
        rb == TransactionInfoIter_next(b, io_b)
    IN  IF ra.item.some /\ IsErr(ra.item.val)
        THEN [out |-> [kind |-> "item", val |-> ra.item.val],
              txn_iter |-> ra.it, txn_info_iter |-> b]
        ELSE [out |-> IF ra.item.some /\ rb.item.some
                      THEN [kind |-> "item",
                            val |-> map_closure(ra.item.val, rb.item.val)]
                      ELSE IF ~ra.item.some /\ ~rb.item.some
                           THEN [kind |-> "end"]
                           ELSE [kind |-> "panic"],
              txn_iter |-> ra.it, txn_info_iter |-> rb.it]

\* One next() of zip_eq(txn_iter, txn_info_iter).map(..): zip_eq pulls one
\* item from each iterator and panics when exactly one of them has ended.
zipped_next(a, b, io_a, io_b) ==
    LET ra == TransactionIter_next(a, io_a)
        rb == TransactionInfoIter_next(b, io_b)
    IN  [out |-> IF ra.item.some /\ rb.item.some
                 THEN [kind |-> "item",
                       val |-> map_closure(ra.item.val, rb.item.val)]
                 ELSE IF ~ra.item.some /\ ~rb.item.some
                      THEN [kind |-> "end"]
                      ELSE [kind |-> "panic"],
         txn_iter |-> ra.it,
         txn_info_iter |-> rb.it]

\* A call's arguments, with what was committed when it was made: the number
\* of versions and the number of epochs that have a checkpoint.
NewCall(op, a, b) ==
    [op |-> op, a |-> a, b |-> b, snap |-> NumVersions,
     epochs |-> Len(ledger_store.ledger_infos)]

(***************************************************************************)
(* BackupHandler::get_transaction_range_proof                              *)
(***************************************************************************)
Fail(kind) ==
    /\ result' = Err(kind)
    /\ pc' = "done"

get_transaction_range_proof(first_version, last_version) ==
    /\ pc = "idle"
    /\ call' = NewCall("get_transaction_range_proof", first_version, last_version)
    /\ IF ~range_ok(first_version, last_version)
       THEN /\ Fail("invalid range")
            /\ UNCHANGED num_transactions
       ELSE LET n == num_transactions_of(first_version, last_version)
            IN  /\ num_transactions' = n.value
                /\ pc' = IF n.overflow /\ overflow_checks
                         THEN "panic" ELSE "trp_get_epoch"
                /\ UNCHANGED result
    /\ UNCHANGED <<stores, overflow_checks, epoch, ledger_info, txn_iter,
                   txn_info_iter, iter, items, reads>>

\* let epoch = self.ledger_store.get_epoch(last_version)?;
GetEpoch(at, version, to, io) ==
    /\ pc = at
    /\ reads' = reads \cup {"ledger_store"}
    /\ IF io
       THEN Fail("io") /\ UNCHANGED epoch
       ELSE /\ epoch' = LedgerStore_get_epoch(version)
            /\ pc' = to
            /\ UNCHANGED result
    /\ UNCHANGED <<stores, overflow_checks, call, ledger_info,
                   num_transactions, txn_iter, txn_info_iter, iter, items>>

\* let ledger_info = self.ledger_store.get_latest_ledger_info_in_epoch(epoch)?;
GetLedgerInfo(at, to, io) ==
    /\ pc = at
    /\ reads' = reads \cup {"ledger_store"}
    /\ LET r == IF io THEN Err("io")
                ELSE LedgerStore_get_latest_ledger_info_in_epoch(epoch)
       IN  IF IsErr(r)
           THEN Fail(r.kind) /\ UNCHANGED ledger_info
           ELSE /\ ledger_info' = r.val
                /\ pc' = to
                /\ UNCHANGED result
    /\ UNCHANGED <<stores, overflow_checks, call, epoch, num_transactions,
                   txn_iter, txn_info_iter, iter, items>>

trp_get_epoch(io) == GetEpoch("trp_get_epoch", call.b, "trp_get_ledger_info", io)

trp_get_ledger_info(io) == GetLedgerInfo("trp_get_ledger_info", "trp_get_proof", io)

trp_get_proof(io) ==
    /\ pc = "trp_get_proof"
    /\ reads' = reads \cup {"ledger_store"}
    /\ LET q == range_proof_request(call.a, num_transactions, ledger_info)
           r == IF io THEN Err("io")
                ELSE LedgerStore_get_transaction_range_proof(
                         q.first, q.num, q.ledger_version)
       IN  result' = IF IsErr(r) THEN r
                     ELSE Ok([proof |-> r.val, ledger_info |-> ledger_info])
    /\ pc' = "done"
    /\ UNCHANGED <<stores, overflow_checks, call, locals, items>>

(***************************************************************************)
(* BackupHandler::get_state_root_proof                                     *)
(***************************************************************************)
get_state_root_proof(version) ==
    /\ pc = "idle"
    /\ call' = NewCall("get_state_root_proof", version, 0)
    /\ pc' = "srp_get_epoch"
    /\ UNCHANGED <<stores, overflow_checks, locals, items, result, reads>>

srp_get_epoch(io) == GetEpoch("srp_get_epoch", call.a, "srp_get_ledger_info", io)

srp_get_ledger_info(io) == GetLedgerInfo("srp_get_ledger_info", "srp_get_txn_info", io)

srp_get_txn_info(io) ==
    /\ pc = "srp_get_txn_info"
    /\ reads' = reads \cup {"ledger_store"}
    /\ LET q == state_root_proof_request(call.a, ledger_info)
           r == IF io THEN Err("io")
                ELSE LedgerStore_get_transaction_info_with_proof(
                         q.version, q.ledger_version)
       IN  result' = IF IsErr(r) THEN r
                     ELSE Ok([txn_info |-> r.val, ledger_info |-> ledger_info])
    /\ pc' = "done"
    /\ UNCHANGED <<stores, overflow_checks, call, locals, items>>

(***************************************************************************)
(* BackupHandler::get_transaction_iter, and the caller driving the         *)
(* iterator it returns.                                                    *)
(***************************************************************************)
get_transaction_iter(start_version, num) ==
    /\ pc = "idle"
    /\ call' = NewCall("get_transaction_iter", start_version, num)
    /\ pc' = "ti_txn_iter"
    /\ UNCHANGED <<stores, overflow_checks, locals, items, result, reads>>

\* self.transaction_store.get_transaction_iter(start_version, num_transactions)?
ti_txn_iter(io) ==
    /\ pc = "ti_txn_iter"
    /\ reads' = reads \cup {"transaction_store"}
    /\ LET r == IF io THEN Err("io")
                ELSE TransactionStore_get_transaction_iter(call.a, call.b)
       IN  IF IsErr(r)
           THEN Fail(r.kind) /\ UNCHANGED txn_iter
           ELSE /\ txn_iter' = r.val
                /\ pc' = "ti_info_iter"
                /\ UNCHANGED result
    /\ UNCHANGED <<stores, overflow_checks, call, epoch, ledger_info,
                   num_transactions, txn_info_iter, iter, items>>

\* self.ledger_store.get_transaction_info_iter(start_version, num_transactions)?
ti_info_iter(io) ==
    /\ pc = "ti_info_iter"
    /\ reads' = reads \cup {"ledger_store"}
    /\ LET q == txn_info_iter_request(call.a, call.b)
           r == IF io THEN Err("io")
                ELSE LedgerStore_get_transaction_info_iter(q.start, q.num)
       IN  IF IsErr(r)
           THEN Fail(r.kind) /\ UNCHANGED txn_info_iter
           ELSE /\ txn_info_iter' = r.val
                /\ result' = Ok([iterator |-> "zipped"])
                /\ pc' = "ti_next"
    /\ UNCHANGED <<stores, overflow_checks, call, epoch, ledger_info,
                   num_transactions, txn_iter, iter, items>>

\* The caller pulls the next item of the zipped iterator.
ti_next(io_a, io_b) ==
    /\ pc = "ti_next"
    /\ LET z == zipped_next(txn_iter, txn_info_iter, io_a, io_b)
       IN  /\ txn_iter' = z.txn_iter
           /\ txn_info_iter' = z.txn_info_iter
           /\ items' = IF z.out.kind = "item"
                       THEN Append(items, z.out.val) ELSE items
           /\ pc' = IF z.out.kind = "item" THEN "ti_next"
                    ELSE IF z.out.kind = "end" THEN "done" ELSE "panic"
    /\ UNCHANGED <<stores, overflow_checks, call, epoch, ledger_info,
                   num_transactions, iter, result, reads>>

(***************************************************************************)
(* BackupHandler::get_account_iter                                         *)
(***************************************************************************)
get_account_iter(version) ==
    /\ pc = "idle"
    /\ call' = NewCall("get_account_iter", version, 0)
    /\ pc' = "ai_new"
    /\ UNCHANGED <<stores, overflow_checks, locals, items, result, reads>>

\* JellyfishMerkleIterator::new(state_store, version, HashValue::zero())?
ai_new(io) ==
    /\ pc = "ai_new"
    /\ reads' = reads \cup {"state_store"}
    /\ LET r == IF io THEN Err("io")
                ELSE JellyfishMerkleIterator_new(call.a, HashValue_zero)
       IN  IF IsErr(r)
           THEN Fail(r.kind) /\ UNCHANGED iter
           ELSE /\ iter' = r.val
                /\ result' = Ok([iterator |-> "accounts"])
                /\ pc' = "ai_next"
    /\ UNCHANGED <<stores, overflow_checks, call, epoch, ledger_info,
                   num_transactions, txn_iter, txn_info_iter, items>>

ai_next ==
    /\ pc = "ai_next"
    /\ LET r == JellyfishMerkleIterator_next(iter)
       IN  /\ iter' = r.it
           /\ items' = IF r.item.some THEN Append(items, r.item.val) ELSE items
           /\ pc' = IF r.item.some THEN "ai_next" ELSE "done"
    /\ UNCHANGED <<stores, overflow_checks, call, epoch, ledger_info,
                   num_transactions, txn_iter, txn_info_iter, result, reads>>

(***************************************************************************)
(* BackupHandler::get_epoch_ending_ledger_info_iter                        *)
(***************************************************************************)
get_epoch_ending_ledger_info_iter(start_epoch, end_epoch) ==
    /\ pc = "idle"
    /\ call' = NewCall("get_epoch_ending_ledger_info_iter", start_epoch, end_epoch)
    /\ pc' = "eli_new"
    /\ UNCHANGED <<stores, overflow_checks, locals, items, result, reads>>

eli_new(io) ==
    /\ pc = "eli_new"
    /\ reads' = reads \cup {"ledger_store"}
    /\ LET q == epoch_iter_request(call.a, call.b)
           r == IF io THEN Err("io")
                ELSE LedgerStore_get_epoch_ending_ledger_info_iter(q.start, q.end)
       IN  IF IsErr(r)
           THEN Fail(r.kind) /\ UNCHANGED iter
           ELSE /\ iter' = r.val
                /\ result' = Ok([iterator |-> "epochs"])
                /\ pc' = "eli_next"
    /\ UNCHANGED <<stores, overflow_checks, call, epoch, ledger_info,
                   num_transactions, txn_iter, txn_info_iter, items>>

eli_next(io) ==
    /\ pc = "eli_next"
    /\ LET r == EpochEndingLedgerInfoIter_next(iter, io)
       IN  /\ iter' = r.it
           /\ items' = IF r.item.some THEN Append(items, r.item.val) ELSE items
           /\ pc' = IF r.item.some THEN "eli_next" ELSE "done"
    /\ UNCHANGED <<stores, overflow_checks, call, epoch, ledger_info,
                   num_transactions, txn_iter, txn_info_iter, result, reads>>

(***************************************************************************)
(* The call returns (or the caller drops the iterator it was driving), and *)
(* the handler is free for the next call.                                  *)
(***************************************************************************)
Return ==
    /\ pc \in {"done", "ti_next", "ai_next", "eli_next"}
    /\ pc' = "idle"
    /\ call' = NoCall
    /\ epoch' = 0
    /\ ledger_info' = LedgerInfo(0, 0)
    /\ num_transactions' = 0
    /\ txn_iter' = NoIter
    /\ txn_info_iter' = NoIter
    /\ iter' = NoIter
    /\ items' = <<>>
    /\ result' = Pending
    /\ reads' = {}
    /\ UNCHANGED <<stores, overflow_checks>>

(***************************************************************************)
(* The system: the store after genesis (version 0, epoch 0, empty state    *)
(* tree), an idle handler, and either build.                               *)
(***************************************************************************)
Init ==
    /\ transaction_store = <<Transaction(0)>>
    /\ ledger_store = [infos |-> <<TransactionInfo(0)>>,
                       epoch_ends |-> <<>>,
                       ledger_infos |-> <<LedgerInfo(0, 0)>>]
    /\ state_store = <<{}>>
    /\ overflow_checks \in BOOLEAN
    /\ pc = "idle"
    /\ call = NoCall
    /\ epoch = 0
    /\ ledger_info = LedgerInfo(0, 0)
    /\ num_transactions = 0
    /\ txn_iter = NoIter
    /\ txn_info_iter = NoIter
    /\ iter = NoIter
    /\ items = <<>>
    /\ result = Pending
    /\ reads = {}

NewKeys == {{}} \cup {{k} : k \in AccountKeys}
EpochArgs == 0 .. MaxCount

Next ==
    \/ \E ends_epoch \in BOOLEAN, new_keys \in NewKeys : Commit(ends_epoch, new_keys)
    \/ \E first \in VersionArgs, last \in VersionArgs :
          get_transaction_range_proof(first, last)
    \/ \E io \in BOOLEAN : trp_get_epoch(io)
    \/ \E io \in BOOLEAN : trp_get_ledger_info(io)
    \/ \E io \in BOOLEAN : trp_get_proof(io)
    \/ \E version \in VersionArgs : get_state_root_proof(version)
    \/ \E io \in BOOLEAN : srp_get_epoch(io)
    \/ \E io \in BOOLEAN : srp_get_ledger_info(io)
    \/ \E io \in BOOLEAN : srp_get_txn_info(io)
    \/ \E start \in VersionArgs, num \in 0 .. MaxCount :
          get_transaction_iter(start, num)
    \/ \E io \in BOOLEAN : ti_txn_iter(io)
    \/ \E io \in BOOLEAN : ti_info_iter(io)
    \/ \E io_a \in BOOLEAN, io_b \in BOOLEAN : ti_next(io_a, io_b)
    \/ \E version \in VersionArgs : get_account_iter(version)
    \/ \E io \in BOOLEAN : ai_new(io)
    \/ ai_next
    \/ \E start_epoch \in EpochArgs, end_epoch \in EpochArgs :
          get_epoch_ending_ledger_info_iter(start_epoch, end_epoch)
    \/ \E io \in BOOLEAN : eli_new(io)
    \/ \E io \in BOOLEAN : eli_next(io)
    \/ Return

Spec == Init /\ [][Next]_vars

(***************************************************************************)
(* Properties.                                                             *)
(***************************************************************************)
IsRangeProofCall == call.op = "get_transaction_range_proof"
IsStateRootCall == call.op = "get_state_root_proof"
IsTxnIterCall == call.op = "get_transaction_iter"
IsAccountIterCall == call.op = "get_account_iter"
IsEpochIterCall == call.op = "get_epoch_ending_ledger_info_iter"

\* The checkpoint the store holds for epoch e now.
Canonical(e) == ledger_store.ledger_infos[e + 1]
\* The pair the zipped iterator owes at its i-th position (1-based).
PairAt(i) ==
    Ok(<<Transaction(call.a + i - 1), TransactionInfo(call.a + i - 1)>>)
Min(x, y) == IF x < y THEN x ELSE y
\* The last of the first n versions that epoch e owns.
LatestInEpochAt(e, n) ==
    CHOOSE v \in 0 .. n - 1 :
        /\ LedgerStore_get_epoch(v) = e
        /\ \A w \in 0 .. n - 1 : LedgerStore_get_epoch(w) = e => w <= v
\* li is a checkpoint of the epoch that owns `version` and was that epoch's
\* canonical checkpoint at some moment since the call.
CanonicalSinceCall(li, version) ==
    LET e == LedgerStore_get_epoch(version)
    IN  /\ li.epoch = e
        /\ LedgerStore_get_epoch(li.version) = e
        /\ li.version >= LatestInEpochAt(e, call.snap)
        /\ li.version <= Canonical(e).version
        /\ NumVersions = call.snap => li = Canonical(e)

\* C1: a call of get_transaction_range_proof with last < first has returned
\* the invalid-range error, has not faulted, and has read none of the stores.
C1_InvalidRangeReadsNothing ==
    (IsRangeProofCall /\ call.b < call.a) =>
        /\ pc = "done"
        /\ result = Err("invalid range")
        /\ reads = {}

C1_Witness ==
    /\ IsRangeProofCall
    /\ call.a = MaxU /\ call.b = 2
    /\ pc = "done"
    /\ NumVersions = MaxVersions

\* C2: when the transaction iterator and the outcome iterator of a
\* get_transaction_iter call have different lengths, the zipped sequence does
\* not panic, and once driven to its end it holds a store-inconsistency error
\* item at the first position where they differ.
C2_MismatchIsRecoverableError ==
    (/\ IsTxnIterCall
     /\ IsOk(result)
     /\ TransactionIterLen(txn_iter) # TransactionInfoIterLen(txn_info_iter)) =>
        /\ pc # "panic"
        /\ pc = "done" =>
             LET m == Min(TransactionIterLen(txn_iter),
                          TransactionInfoIterLen(txn_info_iter))
             IN  /\ Len(items) > m
                 /\ items[m + 1] = Err("store inconsistency")

\* C3: when versions start .. start+count-1 were all committed at the call,
\* get_transaction_iter does not fault, fails only on a failed read, and the
\* sequence driven to its end has exactly count items, item i being the pair
\* (transaction, outcome) of version start+i unless the read there failed.
C3_CommittedRangeYieldsPairs ==
    (IsTxnIterCall /\ call.a + call.b <= call.snap) =>
        /\ pc # "panic"
        /\ IsErr(result) => result = Err("io")
        /\ \A i \in 1 .. Len(items) : items[i] \in {PairAt(i), Err("io")}
        /\ (pc = "done" /\ IsOk(result)) => Len(items) = call.b

C3_Witness ==
    /\ IsTxnIterCall
    /\ pc = "done"
    /\ call.a = 1 /\ call.b = 2
    /\ items = <<PairAt(1), PairAt(2)>>

\* C4: for first <= last committed at the call, get_transaction_range_proof
\* does not fault, fails only on a failed read, and otherwise returns a
\* checkpoint of epoch_of(last) (the canonical one of some moment since the
\* call) with a proof of last - first + 1 leaves from first, built
\* against that checkpoint's version.
C4_RangeProofAgainstEpochCheckpoint ==
    (IsRangeProofCall /\ call.a <= call.b /\ call.b < call.snap) =>
        /\ pc # "panic"
        /\ pc = "done" =>
            \/ result = Err("io")
            \/ /\ IsOk(result)
               /\ CanonicalSinceCall(result.val.ledger_info, call.b)
               /\ result.val.proof =
                    [first_version |-> call.a,
                     num_leaves |-> call.b - call.a + 1,
                     ledger_version |-> result.val.ledger_info.version]

C4_Witness ==
    /\ IsRangeProofCall
    /\ pc = "done"
    /\ IsOk(result)
    /\ call.a = 0 /\ call.b = 1
    /\ result.val.proof.num_leaves = 2
    /\ result.val.ledger_info = LedgerInfo(0, 1)
    /\ CurrentEpoch = 1
    /\ NumVersions = 3

\* C5: whatever the writer commits between the reads of a
\* get_transaction_range_proof call whose last was committed at the call, a
\* successful result is consistent: the checkpoint is of epoch_of(last), at a
\* committed version >= last, and the proof covers [first, last] against
\* exactly that checkpoint's version.
C5_ConsistentUnderCommits ==
    (IsRangeProofCall /\ pc = "done" /\ IsOk(result) /\ call.b < call.snap) =>
        LET li == result.val.ledger_info
            proof == result.val.proof
        IN  /\ li.epoch = LedgerStore_get_epoch(call.b)
            /\ li.version >= call.b
            /\ li.version < NumVersions
            /\ proof.ledger_version = li.version
            /\ proof.first_version = call.a
            /\ proof.first_version + proof.num_leaves - 1 = call.b

\* The checkpoint returned was committed after the call was made, and the
\* store has since replaced it by a later one of the same epoch.
C5_Witness ==
    /\ IsRangeProofCall
    /\ pc = "done"
    /\ IsOk(result)
    /\ call.b < call.snap
    /\ result.val.ledger_info.version >= call.snap
    /\ Canonical(result.val.ledger_info.epoch) # result.val.ledger_info

\* C6: for a version committed at the call, get_state_root_proof fails only
\* on a failed read, and otherwise returns a checkpoint of the epoch that owns
\* the version (the canonical one of some moment since the call), at a
\* version >= it, with the outcome of that version authenticated against the
\* checkpoint's version.
C6_StateRootProofAgainstEpochCheckpoint ==
    (IsStateRootCall /\ pc = "done" /\ call.a < call.snap) =>
        \/ result = Err("io")
        \/ /\ IsOk(result)
           /\ CanonicalSinceCall(result.val.ledger_info, call.a)
           /\ result.val.ledger_info.version >= call.a
           /\ result.val.txn_info =
                [transaction_info |-> TransactionInfo(call.a),
                 ledger_version |-> result.val.ledger_info.version]

C6_Witness ==
    /\ IsStateRootCall
    /\ pc = "done"
    /\ IsOk(result)
    /\ call.a = 0
    /\ result.val.ledger_info = LedgerInfo(0, 1)
    /\ CurrentEpoch = 1

\* C7: for start_epoch <= end_epoch whose epochs all had a checkpoint at the
\* call, the sequence of get_epoch_ending_ledger_info_iter driven to its end
\* has end_epoch - start_epoch items, the i-th being a checkpoint of epoch
\* start_epoch + i unless the read there failed.
C7_EpochsConsecutive ==
    (/\ IsEpochIterCall
     /\ IsOk(result)
     /\ call.a <= call.b
     /\ call.b <= call.epochs) =>
        /\ \A i \in 1 .. Len(items) :
              \/ items[i] = Err("io")
              \/ IsOk(items[i]) /\ items[i].val.epoch = call.a + i - 1
        /\ pc = "done" => Len(items) = call.b - call.a

C7_Witness ==
    /\ IsEpochIterCall
    /\ pc = "done"
    /\ call.a = 0 /\ call.b = 2
    /\ Len(items) = 2
    /\ IsOk(items[1]) /\ IsOk(items[2])

\* C8: the sequence of get_account_iter starts at the all-zero key, and
\* driven to its end it holds the keys of the tree at that version, each
\* once, in strictly increasing order.
C8_AccountsInKeyOrder ==
    IsAccountIterCall =>
        /\ (pc = "ai_next" /\ items = <<>>) => iter.next_key = 0
        /\ \A i \in 1 .. Len(items), j \in 1 .. Len(items) :
              i < j => items[i].val.key < items[j].val.key
        /\ (pc = "done" /\ IsOk(result)) =>
              /\ {items[i].val.key : i \in 1 .. Len(items)} = state_store[call.a + 1]
              /\ Len(items) = Cardinality(state_store[call.a + 1])

C8_Witness ==
    /\ IsAccountIterCall
    /\ pc = "done"
    /\ call.a = 2
    /\ Len(items) = 2
    /\ state_store[2] # state_store[3]

\* Every item of a get_transaction_iter sequence is an error or the pair
\* (transaction, outcome) of its own position, and both underlying iterators
\* stand at the position after the last item.
PositionsKept ==
    (IsTxnIterCall /\ pc = "ti_next") =>
        /\ \A i \in 1 .. Len(items) : IsErr(items[i]) \/ items[i] = PairAt(i)
        /\ txn_iter.next = call.a + Len(items)
        /\ txn_info_iter.next = call.a + Len(items)

\* A pull whose read fails in either store appends one error item and leaves
\* the sequence open.
FailedReadGivesErrorItem ==
    \A io_a \in BOOLEAN, io_b \in BOOLEAN :
        (ti_next(io_a, io_b) /\ (io_a \/ io_b) /\ pc' = "ti_next") =>
            /\ Len(items') = Len(items) + 1
            /\ IsErr(items'[Len(items')])

\* C9: in a get_transaction_iter sequence a position whose read failed in
\* either store gives an error item, and every later item still pairs the
\* transaction and the outcome of its own position: a failed item consumes
\* one position of both iterators and neither shifts nor ends the sequence.
C9_FailedItemKeepsPositions ==
    []PositionsKept /\ [][FailedReadGivesErrorItem]_vars

C9_Witness ==
    /\ IsTxnIterCall
    /\ pc = "ti_next"
    /\ Len(items) = 3
    /\ items[1] = PairAt(1)
    /\ items[2] = Err("io")
    /\ items[3] = PairAt(3)

\* C10: for first <= last, get_transaction_range_proof does not fault and
\* the leaf count it computed is last - first + 1.
C10_LeafCountDoesNotOverflow ==
    (IsRangeProofCall /\ call.a <= call.b) =>
        /\ pc # "panic"
        /\ num_transactions = call.b - call.a + 1

=============================================================================
